---- MODULE Spec2Model ----
(***************************************************************************)
(* Model of src/decider.rs: the IDecider / Decider contracts and the       *)
(* numeric accumulator instance `Number` that implements them.             *)
(*                                                                         *)
(* A u32 is kept at its full width.  TLC's integers are 32-bit signed, so  *)
(* a u32 is the pair [hi, lo] of its two 16-bit halves (value =            *)
(* hi * Half + lo) and the arithmetic of `+` and `*` is done on halves.    *)
(***************************************************************************)
EXTENDS Integers, Sequences, FiniteSets, TLC

VARIABLES
    overflow_checks, \* the build's overflow-checks setting (on: dev/test profile, off: release)
    f,               \* the Number instance: decide_fn, evolve_fn, initial_state
    s0,              \* the initial_state argument new() was called with
    last,            \* the most recent completed call on f: op, arguments, result
    saved,           \* one earlier completed call on f, kept for comparison
    thr,             \* per caller thread: its position, its call's arguments and result
    fold_in,         \* the fold being run: start state and event sequence
    fold,            \* per fold run: the states obtained so far (start state first)
    rt               \* the runtime loop: current state, pending events, event log, commands taken

vars == <<overflow_checks, f, s0, last, saved, thr, fold_in, fold, rt>>

-----------------------------------------------------------------------------
(* u32 *)

\* 2^16: a u32 (src line 64, `value: u32`) is two halves of this size
Half == 65536

U32(hi, lo) == [hi |-> hi, lo |-> lo]

U32_MAX == U32(Half - 1, Half - 1)

\* the u32 inputs of the model: the values of the tests (0 and 2) and u32::MAX
Values == {U32(0, 0), U32(0, 2), U32_MAX}

\* x * y for 16-bit x, y, as the pair [hi, lo] of 16-bit halves of the 32-bit product
Mul16(x, y) ==
    LET t1 == (x \div 256) * y
        t0 == (x % 256) * y
        low == (t1 % 256) * 256 + t0
    IN  [hi |-> (t1 \div 256) + (low \div Half), lo |-> low % Half]

\* a + b on u32: the sum modulo 2^32 and whether the true sum left the u32 range
AddU32(a, b) ==
    LET lo == a.lo + b.lo
        hi == a.hi + b.hi + (lo \div Half)
    IN  [value |-> U32(hi % Half, lo % Half), overflow |-> hi >= Half]

\* a * b on u32: the product modulo 2^32 and whether the true product left the u32 range
MulU32(a, b) ==
    LET m00 == Mul16(a.lo, b.lo)
        m01 == Mul16(a.lo, b.hi)
        m10 == Mul16(a.hi, b.lo)
        m11 == Mul16(a.hi, b.hi)
        mid == m00.hi + m01.lo + m10.lo
    IN  [value |-> U32(mid % Half, m00.lo),
         overflow |-> \/ m11.hi > 0 \/ m11.lo > 0
                      \/ m01.hi > 0 \/ m10.hi > 0
                      \/ mid >= Half]

-----------------------------------------------------------------------------
(* the accumulator domain *)

NumberState_new(num) == [value |-> num]

NumberCmd == [kind : {"AddOddNumber", "MultiplyOddNumber", "AddEvenNumber", "MultiplyEvenNumber"},
              num : Values]

NumberEvt == [kind : {"OddNumberAdded", "OddNumberMultiplied", "EvenNumberAdded", "EvenNumberMultiplied"},
              num : Values]

Evt(kind, num) == [kind |-> kind, num |-> num]

\* the outcome of a call that panicked instead of returning
Panic(msg) == [panic |-> msg]

IsPanic(r) == "panic" \in DOMAIN r

\* `state.value + num`: panics on overflow when overflow_checks is on, wraps when off
PlusOp(a, b) ==
    LET r == AddU32(a, b)
    IN  IF r.overflow /\ overflow_checks
        THEN Panic("attempt to add with overflow")
        ELSE NumberState_new(r.value)

\* `state.value * num`: panics on overflow when overflow_checks is on, wraps when off
TimesOp(a, b) ==
    LET r == MulU32(a, b)
    IN  IF r.overflow /\ overflow_checks
        THEN Panic("attempt to multiply with overflow")
        ELSE NumberState_new(r.value)

\* decide with the Multiply commands answered by Added events
decide_multiply_as_add(command, state) ==
    CASE command.kind = "AddEvenNumber" -> <<Evt("EvenNumberAdded", command.num)>>
      [] command.kind = "AddOddNumber" -> <<Evt("OddNumberAdded", command.num)>>
      [] command.kind = "MultiplyEvenNumber" -> <<Evt("EvenNumberAdded", command.num)>>
      [] command.kind = "MultiplyOddNumber" -> <<Evt("OddNumberAdded", command.num)>>

decide(command, state) ==
    CASE command.kind = "AddEvenNumber" -> <<Evt("EvenNumberAdded", command.num)>>
      [] command.kind = "AddOddNumber" -> <<Evt("OddNumberAdded", command.num)>>
      [] command.kind = "MultiplyEvenNumber" -> <<Evt("EvenNumberMultiplied", command.num)>>
      [] command.kind = "MultiplyOddNumber" -> <<Evt("OddNumberMultiplied", command.num)>>

evolve(state, event) ==
    CASE event.kind = "OddNumberAdded" -> PlusOp(state.value, event.num)
      [] event.kind = "OddNumberMultiplied" -> TimesOp(state.value, event.num)
      [] event.kind = "EvenNumberAdded" -> PlusOp(state.value, event.num)
      [] event.kind = "EvenNumberMultiplied" -> TimesOp(state.value, event.num)

-----------------------------------------------------------------------------
(* the Number instance *)

\* a call through a stored `fn(NumberCmd, NumberState) -> Vec<NumberEvt>` pointer
call_decide_fn(fp, command, state) ==
    CASE fp = "decide" -> decide(command, state)

\* a call through a stored `fn(NumberState, NumberEvt) -> NumberState` pointer
call_evolve_fn(fp, state, event) ==
    CASE fp = "evolve" -> evolve(state, event)

Number_new(decide_arg, evolve_arg, initial_state) ==
    [decide_fn |-> decide_arg, evolve_fn |-> evolve_arg, initial_state |-> initial_state]

\* decide answering from a one-entry cache that ignores its key: the result the
\* previous decide call on the instance returned
Number_decide_retained(self, command, state) ==
    IF last.op = "decide"
    THEN last.ret
    ELSE call_decide_fn(self.decide_fn, command, state)

Number_decide(self, command, state) == call_decide_fn(self.decide_fn, command, state)

\* evolve folding the event into the instance's stored initial state, not into
\* the state it was passed
Number_evolve_from_initial(self, state, event) ==
    call_evolve_fn(self.evolve_fn, self.initial_state, event)

\* evolve taking its state through a slot shared by all callers: a caller that
\* has entered evolve concurrently has overwritten it
Number_evolve_shared_slot(self, state, event) ==
    LET others == {t \in DOMAIN thr : /\ thr[t].pc = "entered"
                                      /\ thr[t].op = "evolve"
                                      /\ thr[t].state # state}
    IN  IF others # {}
        THEN call_evolve_fn(self.evolve_fn, thr[CHOOSE t \in others : TRUE].state, event)
        ELSE call_evolve_fn(self.evolve_fn, state, event)

\* evolve folding the event into the state the previous evolve call on the
\* instance returned, not into the state it was passed
Number_evolve_retained(self, state, event) ==
    IF last.op = "evolve" /\ ~IsPanic(last.ret)
    THEN call_evolve_fn(self.evolve_fn, last.ret, event)
    ELSE call_evolve_fn(self.evolve_fn, state, event)

Number_evolve(self, state, event) == call_evolve_fn(self.evolve_fn, state, event)

\* initial_state answering with a fresh zero state
Number_initial_state_zero(self) == NumberState_new(U32(0, 0))

Number_initial_state(self) == self.initial_state

States == {NumberState_new(v) : v \in Values}

NoCall == [op |-> "none"]

\* construction: `Number::new(decide, evolve, NumberState::new(v))`, under either build
InitInstance ==
    /\ overflow_checks \in BOOLEAN
    /\ s0 \in States
    /\ f = Number_new("decide", "evolve", s0)

-----------------------------------------------------------------------------
(* Spec: one caller making calls on the instance, one after the other.     *)
(* A panicking call unwinds to the caller, which may go on calling.        *)

Idle == [pc |-> "idle"]

NoFold == [start |-> NumberState_new(U32(0, 0)), events |-> <<>>]

NoRuntime == [pc |-> "off"]

Init ==
    /\ InitInstance
    /\ last = NoCall
    /\ saved = NoCall
    /\ thr = <<>>
    /\ fold_in = NoFold
    /\ fold = <<>>
    /\ rt = NoRuntime

\* the caller keeps the previous call at hand (saved), or not
Completed(call) ==
    /\ last' = call
    /\ saved' \in {saved, last}
    /\ UNCHANGED <<overflow_checks, f, s0, thr, fold_in, fold, rt>>

CallDecide ==
    \E command \in NumberCmd, state \in States :
        Completed([op |-> "decide", command |-> command, state |-> state,
                   ret |-> Number_decide(f, command, state)])

CallEvolve ==
    \E state \in States, event \in NumberEvt :
        Completed([op |-> "evolve", state |-> state, event |-> event,
                   ret |-> Number_evolve(f, state, event)])

CallInitialState ==
    Completed([op |-> "initial_state", ret |-> Number_initial_state(f)])

Next == CallDecide \/ CallEvolve \/ CallInitialState

Spec == Init /\ [][Next]_vars

-----------------------------------------------------------------------------
(* SpecConc: several threads calling decide and evolve on the one instance *)
(* through `&self`, with no synchronization.  A call is entered (the       *)
(* arguments are moved into its frame), its body runs, and the caller      *)
(* takes the result; a panicking body ends its thread.                     *)

Threads == {"t1", "t2"}

InitConc ==
    /\ InitInstance
    /\ last = NoCall
    /\ saved = NoCall
    /\ thr = [t \in Threads |-> Idle]
    /\ fold_in = NoFold
    /\ fold = <<>>
    /\ rt = NoRuntime

Enter(t) ==
    /\ thr[t].pc = "idle"
    /\ \/ \E command \in NumberCmd, state \in States :
            thr' = [thr EXCEPT ![t] = [pc |-> "entered", op |-> "decide",
                                       command |-> command, state |-> state]]
       \/ \E state \in States, event \in NumberEvt :
            thr' = [thr EXCEPT ![t] = [pc |-> "entered", op |-> "evolve",
                                       state |-> state, event |-> event]]
    /\ UNCHANGED <<overflow_checks, f, s0, last, saved, fold_in, fold, rt>>

Body(t) ==
    /\ thr[t].pc = "entered"
    /\ LET ret == IF thr[t].op = "decide"
                  THEN Number_decide(f, thr[t].command, thr[t].state)
                  ELSE Number_evolve(f, thr[t].state, thr[t].event)
           pc == IF thr[t].op = "evolve" /\ IsPanic(ret) THEN "panicked" ELSE "returned"
       IN  thr' = [thr EXCEPT ![t] = [pc |-> pc, call |-> thr[t], ret |-> ret]]
    /\ UNCHANGED <<overflow_checks, f, s0, last, saved, fold_in, fold, rt>>

Leave(t) ==
    /\ thr[t].pc = "returned"
    /\ thr' = [thr EXCEPT ![t] = Idle]
    /\ UNCHANGED <<overflow_checks, f, s0, last, saved, fold_in, fold, rt>>

NextConc == \E t \in Threads : Enter(t) \/ Body(t) \/ Leave(t)

SpecConc == InitConc /\ [][NextConc]_vars

-----------------------------------------------------------------------------
(* SpecFold: two runs of the same fold on the one instance, interleaved in *)
(* any order: each applies evolve to the events one at a time, in order,   *)
(* and stops at a panic.                                                   *)

\* longest event sequence folded
MaxFoldLen == 2

FoldRuns == {"first", "second"}

EventSeqs == UNION {[1..n -> NumberEvt] : n \in 0..MaxFoldLen}

InitFold ==
    /\ InitInstance
    /\ last = NoCall
    /\ saved = NoCall
    /\ thr = <<>>
    /\ fold_in \in [start : States, events : EventSeqs]
    /\ fold = [r \in FoldRuns |-> <<fold_in.start>>]
    /\ rt = NoRuntime

FoldStep(r) ==
    LET n == Len(fold[r])
        state == fold[r][n]
    IN  /\ n <= Len(fold_in.events)
        /\ ~IsPanic(state)
        /\ LET event == fold_in.events[n]
               ret == Number_evolve(f, state, event)
           IN  /\ fold' = [fold EXCEPT ![r] = Append(@, ret)]
               /\ last' = [op |-> "evolve", state |-> state, event |-> event, ret |-> ret]
        /\ UNCHANGED <<overflow_checks, f, s0, saved, thr, fold_in, rt>>

NextFold == \E r \in FoldRuns : FoldStep(r)

SpecFold == InitFold /\ [][NextFold]_vars

-----------------------------------------------------------------------------
(* SpecRuntime: the usage loop.  State0 = initial_state(); a command is    *)
(* decided against the current state, and its events are folded in order   *)
(* through evolve into the next state.  The log holds every event decide   *)
(* has produced, in production order.  A panic stops the loop.             *)

\* most commands the loop takes
MaxCommands == 3

InitRuntime ==
    /\ InitInstance
    /\ last = NoCall
    /\ saved = NoCall
    /\ thr = <<>>
    /\ fold_in = NoFold
    /\ fold = <<>>
    /\ rt = [pc |-> "idle", cur |-> Number_initial_state(f), pending |-> <<>>,
             log |-> <<>>, taken |-> 0]

RuntimeDecide ==
    /\ rt.pc = "idle"
    /\ rt.taken < MaxCommands
    /\ \E command \in NumberCmd :
        LET events == Number_decide(f, command, rt.cur)
        IN  /\ rt' = [rt EXCEPT !.pc = IF events = <<>> THEN "idle" ELSE "folding",
                                !.pending = events,
                                !.log = @ \o events,
                                !.taken = @ + 1]
            /\ last' = [op |-> "decide", command |-> command, state |-> rt.cur,
                        ret |-> events]
    /\ UNCHANGED <<overflow_checks, f, s0, saved, thr, fold_in, fold>>

RuntimeEvolve ==
    /\ rt.pc = "folding"
    /\ LET event == Head(rt.pending)
           ret == Number_evolve(f, rt.cur, event)
       IN  /\ rt' = IF IsPanic(ret)
                    THEN [rt EXCEPT !.pc = "panicked"]
                    ELSE [rt EXCEPT !.cur = ret,
                                    !.pending = Tail(@),
                                    !.pc = IF Tail(rt.pending) = <<>> THEN "idle" ELSE "folding"]
           /\ last' = [op |-> "evolve", state |-> rt.cur, event |-> event, ret |-> ret]
    /\ UNCHANGED <<overflow_checks, f, s0, saved, thr, fold_in, fold>>

NextRuntime == RuntimeDecide \/ RuntimeEvolve

SpecRuntime == InitRuntime /\ [][NextRuntime]_vars

\* the state obtained by folding `events` in order through evolve from `state`
RECURSIVE Replay(_, _)
Replay(state, events) ==
    IF events = <<>>
    THEN state
    ELSE LET ret == Number_evolve(f, state, Head(events))
         IN  IF IsPanic(ret) THEN ret ELSE Replay(ret, Tail(events))

-----------------------------------------------------------------------------
(* Claims checked under Spec *)

\* the calls the caller has at hand: the most recent one and the kept one
AtHand == {last, saved}

\* C1: every initial_state() call returns exactly the state new() was given,
\* whatever calls were made on the instance before.
C1_InitialStateIsConstructionValue ==
    \A call \in AtHand : call.op = "initial_state" => call.ret = s0

\* C1 witness: initial_state() observed after an evolve call, and again after
\* another call, on an instance built with a non-zero state.
C1_Witness ==
    /\ saved.op = "evolve"
    /\ last.op = "initial_state"
    /\ s0 = NumberState_new(U32(0, 2))

\* C2: decide maps each command to the one-element sequence holding the event of
\* the matching kind with the same payload, for every state.
C2_DecideMapsCommandToMatchingEvent ==
    \A call \in AtHand : call.op = "decide" =>
        /\ Len(call.ret) = 1
        /\ call.ret[1].num = call.command.num
        /\ call.command.kind = "AddEvenNumber" => call.ret[1].kind = "EvenNumberAdded"
        /\ call.command.kind = "AddOddNumber" => call.ret[1].kind = "OddNumberAdded"
        /\ call.command.kind = "MultiplyEvenNumber" => call.ret[1].kind = "EvenNumberMultiplied"
        /\ call.command.kind = "MultiplyOddNumber" => call.ret[1].kind = "OddNumberMultiplied"

\* C2 witness: MultiplyEvenNumber(2) decided against state 2.
C2_Witness ==
    /\ last.op = "decide"
    /\ last.command = [kind |-> "MultiplyEvenNumber", num |-> U32(0, 2)]
    /\ last.state = NumberState_new(U32(0, 2))
    /\ last.ret = <<Evt("EvenNumberMultiplied", U32(0, 2))>>

\* the true sum a + b, as the 32-bit word `value` and the carry above it
WideAdd(a, b) ==
    LET lo == a.lo + b.lo
        hi == a.hi + b.hi + (lo \div Half)
    IN  [top |-> hi \div Half, value |-> U32(hi % Half, lo % Half)]

\* the true product a * b, as the low 32-bit word `value` and the high word `top`
WideMul(a, b) ==
    LET m00 == Mul16(a.lo, b.lo)
        m01 == Mul16(a.lo, b.hi)
        m10 == Mul16(a.hi, b.lo)
        m11 == Mul16(a.hi, b.hi)
        c1 == m00.hi + m01.lo + m10.lo
        c2 == m01.hi + m10.hi + m11.lo + (c1 \div Half)
        c3 == m11.hi + (c2 \div Half)
    IN  [top |-> U32(c3, c2 % Half), value |-> U32(c1 % Half, m00.lo)]

IsAdded(event) == event.kind \in {"OddNumberAdded", "EvenNumberAdded"}

\* the result of the call holds exactly the number `wide`
HoldsExactly(ret, wide, zero) ==
    /\ ~IsPanic(ret)
    /\ wide.top = zero
    /\ ret.value = wide.value

\* C3 (as claimed): evolve returns the state whose value is state.value + n for the
\* Added events and state.value * n for the Multiplied events, for every state and n.
C3_EvolveReturnsSumOrProduct ==
    \A call \in AtHand : call.op = "evolve" =>
        IF IsAdded(call.event)
        THEN HoldsExactly(call.ret, WideAdd(call.state.value, call.event.num), 0)
        ELSE HoldsExactly(call.ret, WideMul(call.state.value, call.event.num), U32(0, 0))

\* C4 (as claimed): evolve returns a state, and decide a sequence, without
\* panicking, for every state and every payload.
C4_EvolveAndDecideNeverPanic ==
    \A call \in AtHand :
        /\ call.op = "evolve" => ~IsPanic(call.ret)
        /\ call.op = "decide" => call.ret \in Seq(NumberEvt)

\* C6: two decide calls on the instance with the same command and state return
\* the same event sequence, whatever was called in between.
C6_DecideRepeatsItsAnswer ==
    (/\ saved.op = "decide"
     /\ last.op = "decide"
     /\ saved.command = last.command
     /\ saved.state = last.state) => saved.ret = last.ret

\* C6 witness: the same (command, state) decided at two different times.
C6_Witness ==
    /\ saved.op = "decide"
    /\ last.op = "decide"
    /\ saved.command = last.command
    /\ saved.state = last.state
    /\ last.command.kind = "AddOddNumber"

\* C8: the instance keeps the three components new() was given, and its decide
\* and evolve return what the bound functions return on the same arguments.
C8_InstanceDelegatesToItsComponents ==
    /\ f.decide_fn = "decide"
    /\ f.evolve_fn = "evolve"
    /\ f.initial_state = s0
    /\ \A call \in AtHand :
        /\ call.op = "decide" => call.ret = decide(call.command, call.state)
        /\ call.op = "evolve" => call.ret = evolve(call.state, call.event)

\* C8 witness: an evolve call on a state other than the stored initial state,
\* after a decide call.
C8_Witness ==
    /\ saved.op = "decide"
    /\ last.op = "evolve"
    /\ last.state # f.initial_state
    /\ last.event.kind = "EvenNumberAdded"
    /\ ~IsPanic(last.ret)

-----------------------------------------------------------------------------
(* Claims checked under SpecFold *)

\* the steps a run has taken: <<state before, event applied, state after>>
StepsOf(r) == {<<fold[r][i], fold_in.events[i], fold[r][i + 1]>> : i \in 1..(Len(fold[r]) - 1)}

\* C7: two runs of the same fold on the instance agree on every state they have
\* both reached (intermediate and final), and any two steps, of either run, that
\* apply the same event to the same state give the same state.
C7_FoldIsAFunctionOfStartAndEvents ==
    /\ \A r1, r2 \in FoldRuns :
        \A i \in 1..Len(fold[r1]) : i <= Len(fold[r2]) => fold[r1][i] = fold[r2][i]
    /\ \A r1, r2 \in FoldRuns :
        \A x \in StepsOf(r1), y \in StepsOf(r2) :
            (x[1] = y[1] /\ x[2] = y[2]) => x[3] = y[3]

\* C7 witness: both runs have folded two events from state 2 to the end, through
\* three different states.
C7_Witness ==
    /\ fold_in.start = NumberState_new(U32(0, 2))
    /\ Len(fold_in.events) = 2
    /\ \A r \in FoldRuns : Len(fold[r]) = 3 /\ ~IsPanic(fold[r][3])
    /\ fold["first"][1] # fold["first"][2]
    /\ fold["first"][2] # fold["first"][3]
    /\ fold["first"][1] # fold["first"][3]

-----------------------------------------------------------------------------
(* Claims checked under SpecConc *)

\* what the call returns when it is the only call made on the instance
Alone(call) ==
    IF call.op = "decide"
    THEN decide(call.command, call.state)
    ELSE evolve(call.state, call.event)

\* C9: under every interleaving of the threads' calls, each finished call has the
\* result the same call has when run alone, and the instance's initial state is
\* the one it was built with.
C9_ConcurrentCallsReturnTheirSoloResult ==
    /\ \A t \in Threads :
        thr[t].pc \in {"returned", "panicked"} => thr[t].ret = Alone(thr[t].call)
    /\ f.initial_state = s0

\* C9 witness: one thread has finished an evolve call that another thread's
\* evolve call, on a different state, overlapped.
C9_Witness ==
    /\ thr["t1"].pc = "returned"
    /\ thr["t1"].call.op = "evolve"
    /\ thr["t2"].pc = "entered"
    /\ thr["t2"].op = "evolve"
    /\ thr["t2"].state # thr["t1"].call.state
    /\ thr["t1"].ret # thr["t1"].call.state

-----------------------------------------------------------------------------
(* Claims checked under SpecRuntime *)

\* C10: folding the whole log through evolve from initial_state() gives what the
\* loop has: its current state once the events still pending are folded into it
\* (a panic where the loop panics).  With nothing pending, after each command's
\* events are folded, that is the current state itself.
C10_CurrentStateIsReplayOfLog ==
    /\ Replay(rt.cur, rt.pending) = Replay(Number_initial_state(f), rt.log)
    /\ rt.pc = "idle" => rt.pending = <<>>

\* C10 witness: three commands taken and folded, leaving a state that is neither
\* the initial state nor the state after the first two.
C10_Witness ==
    /\ rt.pc = "idle"
    /\ rt.taken = 3
    /\ Len(rt.log) = 3
    /\ rt.cur # Number_initial_state(f)
    /\ rt.cur # Replay(Number_initial_state(f), SubSeq(rt.log, 1, 2))

====
